---- MODULE Spec2Model ----
(***************************************************************************)
(* SpanielObserver (src/src/spaniel-observer.ts): the threshold-crossing   *)
(* state machine, its record store, entry queue and page-visibility gate.  *)
(*                                                                         *)
(* Heap objects (records with their threshold states) live in recs, keyed  *)
(* by an object identity; recordStore maps __spanielId keys to them, so a  *)
(* record removed by unobserve stays alive for the closure that            *)
(* scheduleWork holds and for the timer closures that captured its states. *)
(* Optional JavaScript values (null / undefined) are <<>>, a present value *)
(* v is <<v>>.                                                             *)
(***************************************************************************)
EXTENDS Integers, Sequences, FiniteSets, TLC

VARIABLES
    thresholds,     \* this.thresholds, as left by the constructor's sort
    callback,       \* this.callback: what the caller's function does when invoked
    paused,         \* this.paused
    queuedEntries,  \* this.queuedEntries
    recordStore,    \* this.recordStore: sequence of [id, rec] in key insertion order
    recs,           \* heap: object identity -> SpanielRecord
    timers,         \* pending setTimeout callbacks (closures over state and spanielEntry)
    pendingWork,    \* closures handed to scheduleWork and not yet run
    now,            \* Date.now()
    inputs,         \* calls and signals the environment has made so far
    budget,         \* calls and signals the environment makes in this run at most
    satisfiedSince, \* history: per threshold state, the time of the sample that began
                    \* its current period of ratio satisfaction (0 when in none)
    disconnected,   \* history: disconnect has been called and observe has not since
    received,       \* history: per element, the last raw sample the intersection primitive
                    \* delivered for its record in the store, and whether the gate was
                    \* paused at that time
    entered,        \* history: the (element, label) pairs whose last delivered event
                    \* is an entering event
    calls,          \* the callback invocations made by the last step, in order
    lastOp          \* the operation the last step ran, with its arguments

vars == <<thresholds, callback, paused, queuedEntries, recordStore, recs, timers,
          pendingWork, now, inputs, budget, satisfiedSince, disconnected,
          received, entered, calls, lastOp>>

----------------------------------------------------------------------------
(* Bounds of the model *)

MaxInputs == 4      \* calls, signals and sample batches the environment makes
MaxTime == 3        \* the clock runs from 1 to MaxTime
DwellTime == 1      \* the time component of the configured time threshold
MaxDepth == 3       \* nested calls the stack holds before the engine raises RangeError
MaxSoloInputs == 5  \* the environment's calls, signals and batches in a run on one element

Elements == {"e1", "e2"}
SoloElement == "e1"
\* the payload the caller passes with each element (null is observe's default)
PayloadOf(target) == IF target = "e1" THEN "p1" ELSE "null"
Ratios == {2, 5, 8}     \* intersection ratios of raw samples, in tenths

\* options.threshold as the caller passes it
ThresholdOption ==
    << [label |-> "50pct",    ratio |-> 5, time |-> 0],
       [label |-> "viewable", ratio |-> 7, time |-> DwellTime] >>

None == <<>>
Some(v) == <<v>>

\* JavaScript ToNumber on an optional number: null converts to 0
ToNumber(o) == IF o = None THEN 0 ELSE o[1]

emptyRect == [x |-> 0, y |-> 0, width |-> 0, height |-> 0]

\* geometry carried by a real sample of the intersection primitive
sampleRect == [x |-> 0, y |-> 0, width |-> 1, height |-> 1]

----------------------------------------------------------------------------
(* Helpers *)

Range(s) == {s[i] : i \in DOMAIN s}

Injective(s) == \A i, j \in DOMAIN s : s[i] = s[j] => i = j

SeqPermutations(s) ==
    {p \in [DOMAIN s -> Range(s)] : \A i \in DOMAIN s : \E j \in DOMAIN s : p[j] = s[i]}

\* threshold.sort((t) => t.ratio): the comparator ignores its second argument.
\* When every call returns 0 the order is kept; otherwise the resulting order
\* depends on the engine's sort, so every permutation is a possible outcome.
SortByRatio(ths) ==
    IF \A i \in DOMAIN ths : ths[i].ratio = 0 THEN {ths} ELSE SeqPermutations(ths)

\* entrySatisfiesRatio(entry, ratio) of ./intersection-observer
entrySatisfiesRatio(entry, ratio) == entry.intersectionRatio >= ratio

\* this.recordStore[id]
StoreKeys == {recordStore[i].id : i \in DOMAIN recordStore}
Lookup(store, id) == (CHOOSE i \in DOMAIN store : store[i].id = id)
StoreRec(store, id) == store[Lookup(store, id)].rec
StoreRecs(store) == {store[i].rec : i \in DOMAIN store}

RemoveKey(store, id) == SelectSeq(store, LAMBDA kv : kv.id # id)

\* a raw sample of the intersection primitive, stamped with the current time
Sample(e, r, t) ==
    [intersectionRatio |-> r, time |-> t, rootBounds |-> sampleRect,
     boundingClientRect |-> sampleRect, intersectionRect |-> sampleRect,
     target |-> e]

\* setTimeout returns an identity no live handle or pending timer uses
TimerIdsInUse(rs, ts) ==
    {t.id : t \in ts} \cup
    {rs[r].thresholdStates[i].timeoutId[1] :
        <<r, i>> \in {<<r, i>> \in (DOMAIN rs) \X (1..Len(ThresholdOption)) :
                        rs[r].thresholdStates[i].timeoutId # None}}

NewTimerId(rs, ts) ==
    LET used == TimerIdsInUse(rs, ts)
    IN  CHOOSE i \in 1..(Cardinality(used) + 1) :
            i \notin used /\ \A j \in 1..(i - 1) : j \in used

\* clearTimeout(id): no effect when id is undefined or no longer pending
clearTimeout(ts, id) ==
    IF id = None THEN ts ELSE {t \in ts : t.id # id[1]}

----------------------------------------------------------------------------
(* The mutable world an operation threads through its calls *)

World(rs, ts, q, cs) == [recs |-> rs, timers |-> ts, queuedEntries |-> q, calls |-> cs]

SetState(w, rid, i, st) ==
    [w EXCEPT !.recs[rid].thresholdStates[i] = st]

\* flushQueuedEntries that does not empty the queue after the callback
flushQueuedEntries_KeepQueue(w) ==
    IF Len(w.queuedEntries) > 0
    THEN [w EXCEPT !.calls = Append(@, w.queuedEntries)]
    ELSE w

\* flushQueuedEntries without the test of the queue's length
flushQueuedEntries_Unguarded(w) ==
    [w EXCEPT !.calls = Append(@, w.queuedEntries), !.queuedEntries = <<>>]

\* flushQueuedEntries
flushQueuedEntries(w) ==
    IF Len(w.queuedEntries) > 0
    THEN [w EXCEPT !.calls = Append(@, w.queuedEntries), !.queuedEntries = <<>>]
    ELSE w

\* generateSpanielEntry that leaves the payload at observe's default
generateSpanielEntry_DefaultPayload(w, store, entry, state) ==
    [intersectionRatio  |-> entry.intersectionRatio,
     time               |-> entry.time,
     rootBounds         |-> entry.rootBounds,
     boundingClientRect |-> entry.boundingClientRect,
     intersectionRect   |-> entry.intersectionRect,
     target             |-> entry.target,
     duration           |-> 0,
     entering           |-> None,
     payload            |-> "null",
     label              |-> state.threshold.label]

\* generateSpanielEntry(entry, state)
generateSpanielEntry(w, store, entry, state) ==
    LET record == w.recs[StoreRec(store, entry.target)]
    IN  [intersectionRatio  |-> entry.intersectionRatio,
         time               |-> entry.time,
         rootBounds         |-> entry.rootBounds,
         boundingClientRect |-> entry.boundingClientRect,
         intersectionRect   |-> entry.intersectionRect,
         target             |-> entry.target,
         duration           |-> 0,
         entering           |-> None,
         payload            |-> record.payload,
         label              |-> state.threshold.label]

\* handleThresholdExiting without its clearTimeout
handleThresholdExiting_NoClear(w, spanielEntry, rid, i) ==
    LET state == w.recs[rid].thresholdStates[i]
        hasTimeThreshold == state.threshold.time # 0
        emit == state.lastSatisfied /\ (~hasTimeThreshold \/ (hasTimeThreshold /\ state.visible))
        out == [spanielEntry EXCEPT
                    !.duration = spanielEntry.time - ToNumber(state.lastVisible),
                    !.entering = Some(FALSE)]
    IN  IF emit
        THEN [SetState(w, rid, i, [state EXCEPT !.visible = FALSE])
                EXCEPT !.queuedEntries = Append(@, out)]
        ELSE w

\* handleThresholdExiting that emits for every satisfied state, confirmed or not
handleThresholdExiting_Unconfirmed(w, spanielEntry, rid, i) ==
    LET state == w.recs[rid].thresholdStates[i]
        emit == state.lastSatisfied
        out == [spanielEntry EXCEPT
                    !.duration = spanielEntry.time - ToNumber(state.lastVisible),
                    !.entering = Some(FALSE)]
        w1 == IF emit
              THEN [SetState(w, rid, i, [state EXCEPT !.visible = FALSE])
                        EXCEPT !.queuedEntries = Append(@, out)]
              ELSE w
    IN  [w1 EXCEPT !.timers = clearTimeout(@, state.timeoutId)]

\* handleThresholdExiting that leaves state.visible as it is
handleThresholdExiting_StaysVisible(w, spanielEntry, rid, i) ==
    LET state == w.recs[rid].thresholdStates[i]
        hasTimeThreshold == state.threshold.time # 0
        emit == state.lastSatisfied /\ (~hasTimeThreshold \/ (hasTimeThreshold /\ state.visible))
        out == [spanielEntry EXCEPT
                    !.duration = spanielEntry.time - ToNumber(state.lastVisible),
                    !.entering = Some(FALSE)]
        w1 == IF emit THEN [w EXCEPT !.queuedEntries = Append(@, out)] ELSE w
    IN  [w1 EXCEPT !.timers = clearTimeout(@, state.timeoutId)]

\* handleThresholdExiting(spanielEntry, state), state being thresholdStates[i] of rid
handleThresholdExiting(w, spanielEntry, rid, i) ==
    LET state == w.recs[rid].thresholdStates[i]
        hasTimeThreshold == state.threshold.time # 0
        emit == state.lastSatisfied /\ (~hasTimeThreshold \/ (hasTimeThreshold /\ state.visible))
        out == [spanielEntry EXCEPT
                    !.duration = spanielEntry.time - ToNumber(state.lastVisible),
                    !.entering = Some(FALSE)]
        w1 == IF emit
              THEN [SetState(w, rid, i, [state EXCEPT !.visible = FALSE])
                        EXCEPT !.queuedEntries = Append(@, out)]
              ELSE w
    IN  [w1 EXCEPT !.timers = clearTimeout(@, state.timeoutId)]

\* handleRecordExiting(record, time): forEach over record.thresholdStates, from i on
RECURSIVE handleRecordExitingFrom(_, _, _, _)
handleRecordExitingFrom(w, rid, time, i) ==
    IF i > Len(w.recs[rid].thresholdStates) THEN w
    ELSE
        LET record == w.recs[rid]
            state == record.thresholdStates[i]
            spanielEntry ==
                [intersectionRatio  |-> -1,
                 time               |-> time,
                 payload            |-> record.payload,
                 label              |-> state.threshold.label,
                 entering           |-> Some(FALSE),
                 rootBounds         |-> emptyRect,
                 boundingClientRect |-> emptyRect,
                 intersectionRect   |-> emptyRect,
                 duration           |-> time - ToNumber(state.lastVisible),
                 target             |-> record.target]
            w1 == handleThresholdExiting(w, spanielEntry, rid, i)
            st1 == w1.recs[rid].thresholdStates[i]
            w2 == SetState(w1, rid, i,
                     [st1 EXCEPT !.lastSatisfied = FALSE, !.visible = FALSE, !.lastEntry = None])
        IN  handleRecordExitingFrom(w2, rid, time, i + 1)

\* handleRecordExiting that resets the states only where an exit was emitted
RECURSIVE handleRecordExitingFrom_ResetEmitted(_, _, _, _)
handleRecordExitingFrom_ResetEmitted(w, rid, time, i) ==
    IF i > Len(w.recs[rid].thresholdStates) THEN w
    ELSE
        LET record == w.recs[rid]
            state == record.thresholdStates[i]
            spanielEntry ==
                [intersectionRatio  |-> -1,
                 time               |-> time,
                 payload            |-> record.payload,
                 label              |-> state.threshold.label,
                 entering           |-> Some(FALSE),
                 rootBounds         |-> emptyRect,
                 boundingClientRect |-> emptyRect,
                 intersectionRect   |-> emptyRect,
                 duration           |-> time - ToNumber(state.lastVisible),
                 target             |-> record.target]
            w1 == handleThresholdExiting(w, spanielEntry, rid, i)
            st1 == w1.recs[rid].thresholdStates[i]
            w2 == IF Len(w1.queuedEntries) > Len(w.queuedEntries)
                  THEN SetState(w1, rid, i,
                          [st1 EXCEPT !.lastSatisfied = FALSE, !.visible = FALSE,
                                      !.lastEntry = None])
                  ELSE w1
        IN  handleRecordExitingFrom_ResetEmitted(w2, rid, time, i + 1)

handleRecordExiting_ResetEmitted(w, rid, time) ==
    handleRecordExitingFrom_ResetEmitted(w, rid, time, 1)

handleRecordExiting(w, rid, time) == handleRecordExitingFrom(w, rid, time, 1)

\* the body of the forEach that takes its first branch whenever the ratio is
\* satisfied and the state is not visible, rising edge or not
handleObserverEntryState_NoEdge(w, store, entry, rid, i, t) ==
    LET state == w.recs[rid].thresholdStates[i]
        hasTimeThreshold == state.threshold.time # 0
        spanielEntry == generateSpanielEntry(w, store, entry, state)
        ratioSatisfied == entrySatisfiesRatio(entry, state.threshold.ratio)
        entering == [spanielEntry EXCEPT !.entering = Some(TRUE)]
        id == NewTimerId(w.recs, w.timers)
        w1 == IF ratioSatisfied /\ ~state.visible
              THEN IF hasTimeThreshold
                   THEN [SetState(w, rid, i,
                            [state EXCEPT !.lastVisible = Some(entry.time),
                                          !.timeoutId = Some(id)])
                            EXCEPT !.timers = @ \cup
                                {[id |-> id, rec |-> rid, idx |-> i,
                                  due |-> t + state.threshold.time,
                                  entry |-> entering]}]
                   ELSE [SetState(w, rid, i, [state EXCEPT !.visible = TRUE])
                            EXCEPT !.queuedEntries = Append(@, entering)]
              ELSE IF ~ratioSatisfied
                   THEN handleThresholdExiting(w, spanielEntry, rid, i)
                   ELSE w
        st1 == w1.recs[rid].thresholdStates[i]
    IN  SetState(w1, rid, i,
            [st1 EXCEPT !.lastEntry = Some(entry), !.lastSatisfied = ratioSatisfied])

\* the body of the forEach of handleObserverEntry, for thresholdStates[i] of rid
handleObserverEntryState(w, store, entry, rid, i, t) ==
    LET state == w.recs[rid].thresholdStates[i]
        hasTimeThreshold == state.threshold.time # 0
        spanielEntry == generateSpanielEntry(w, store, entry, state)
        ratioSatisfied == entrySatisfiesRatio(entry, state.threshold.ratio)
        entering == [spanielEntry EXCEPT !.entering = Some(TRUE)]
        id == NewTimerId(w.recs, w.timers)
        w1 == IF ratioSatisfied /\ ~state.lastSatisfied
              THEN IF hasTimeThreshold
                   THEN [SetState(w, rid, i,
                            [state EXCEPT !.lastVisible = Some(entry.time),
                                          !.timeoutId = Some(id)])
                            EXCEPT !.timers = @ \cup
                                {[id |-> id, rec |-> rid, idx |-> i,
                                  due |-> t + state.threshold.time,
                                  entry |-> entering]}]
                   ELSE [SetState(w, rid, i, [state EXCEPT !.visible = TRUE])
                            EXCEPT !.queuedEntries = Append(@, entering)]
              ELSE IF ~ratioSatisfied
                   THEN handleThresholdExiting(w, spanielEntry, rid, i)
                   ELSE w
        st1 == w1.recs[rid].thresholdStates[i]
    IN  SetState(w1, rid, i,
            [st1 EXCEPT !.lastEntry = Some(entry), !.lastSatisfied = ratioSatisfied])

RECURSIVE handleObserverEntryFrom(_, _, _, _, _, _)
handleObserverEntryFrom(w, store, entry, rid, i, t) ==
    IF i > Len(w.recs[rid].thresholdStates) THEN w
    ELSE handleObserverEntryFrom(
            handleObserverEntryState(w, store, entry, rid, i, t), store, entry, rid, i + 1, t)

\* handleObserverEntry that processes the entry whether or not the gate is paused
handleObserverEntry_IgnorePause(w, store, isPaused, entry, t) ==
    LET rid == StoreRec(store, entry.target)
        w1 == [w EXCEPT !.recs[rid].lastSeenEntry = Some(entry)]
    IN  flushQueuedEntries(handleObserverEntryFrom(w1, store, entry, rid, 1, t))

\* handleObserverEntry that stores the entry only when the gate is not paused
handleObserverEntry_StoreWhenActive(w, store, isPaused, entry, t) ==
    LET rid == StoreRec(store, entry.target)
        w1 == [w EXCEPT !.recs[rid].lastSeenEntry = Some(entry)]
    IN  IF ~isPaused
        THEN flushQueuedEntries(handleObserverEntryFrom(w1, store, entry, rid, 1, t))
        ELSE w

\* handleObserverEntry(entry), with this.paused = isPaused and Date.now() = t
handleObserverEntry(w, store, isPaused, entry, t) ==
    LET rid == StoreRec(store, entry.target)
        w1 == [w EXCEPT !.recs[rid].lastSeenEntry = Some(entry)]
    IN  IF ~isPaused
        THEN flushQueuedEntries(handleObserverEntryFrom(w1, store, entry, rid, 1, t))
        ELSE w1

\* internalCallback(records): records.forEach(handleObserverEntry), from i on
RECURSIVE internalCallbackFrom(_, _, _, _, _, _)
internalCallbackFrom(w, store, isPaused, records, i, t) ==
    IF i > Len(records) THEN w
    ELSE internalCallbackFrom(
            handleObserverEntry(w, store, isPaused, records[i], t),
            store, isPaused, records, i + 1, t)

\* setAllHidden: the loop over Object.keys(this.recordStore), from i on, then the flush
RECURSIVE setAllHiddenFrom(_, _, _, _)
setAllHiddenFrom(w, store, time, i) ==
    IF i > Len(store) THEN w
    ELSE setAllHiddenFrom(handleRecordExiting(w, store[i].rec, time), store, time, i + 1)

\* setAllHidden without its flush
setAllHidden_NoFlush(w, store, time) == setAllHiddenFrom(w, store, time, 1)

setAllHidden(w, store, time) == flushQueuedEntries(setAllHiddenFrom(w, store, time, 1))

\* entry.time = time, without it
Restamp_Keep(entry, time) == entry

\* entry.time = time
Restamp(entry, time) == [entry EXCEPT !.time = time]

\* the loop of onTabShown over Object.keys(this.recordStore), from i on
RECURSIVE onTabShownFrom(_, _, _, _)
onTabShownFrom(w, store, time, i) ==
    IF i > Len(store) THEN w
    ELSE
        LET entry == w.recs[store[i].rec].lastSeenEntry
            w1 == IF entry # None
                  THEN handleObserverEntry(w, store, FALSE, Restamp(entry[1], time), time)
                  ELSE w
        IN  onTabShownFrom(w1, store, time, i + 1)

\* records no closure and no store key refers to any more are reclaimed
Collect(rs, store, work, ts) ==
    LET live == StoreRecs(store) \cup work \cup {t.rec : t \in ts}
    IN  [r \in (DOMAIN rs) \cap live |-> rs[r]]

----------------------------------------------------------------------------
(* A callback that calls back into the observer.  The caller's function is  *)
(* "collect" when it only takes the entries, "disconnectOnce" when it calls *)
(* disconnect() the first time it is invoked ("spent" afterwards), and      *)
(* "disconnectAlways" when it calls disconnect() at every invocation.  The  *)
(* world then carries the callback, the record store, and whether an        *)
(* exception was raised and is unwinding the stack.                         *)

ReentrantWorld(rs, ts, q, cs, cb, store) ==
    [recs |-> rs, timers |-> ts, queuedEntries |-> q, calls |-> cs,
     callback |-> cb, recordStore |-> store, raised |-> FALSE]

RECURSIVE flushQueuedEntriesCalling(_, _, _)
RECURSIVE disconnectCalling(_, _, _)

\* this.callback(entries), invoked at nesting depth `depth`
callbackCalling(w, time, depth) ==
    LET invoked == [w EXCEPT !.calls = Append(@, w.queuedEntries)]
    IN  IF w.callback \in {"disconnectOnce", "disconnectAlways"}
        THEN IF depth >= MaxDepth
             THEN [invoked EXCEPT !.raised = TRUE]
             ELSE disconnectCalling(
                    [invoked EXCEPT !.callback = IF @ = "disconnectOnce" THEN "spent" ELSE @],
                    time, depth + 1)
        ELSE invoked

\* flushQueuedEntries: the queue is emptied after the callback has returned
flushQueuedEntriesCalling(w, time, depth) ==
    IF Len(w.queuedEntries) > 0
    THEN LET returned == callbackCalling(w, time, depth)
         IN  IF returned.raised THEN returned
             ELSE [returned EXCEPT !.queuedEntries = <<>>]
    ELSE w

\* disconnect(), called by the callback: setAllHidden, then recordStore = {}
disconnectCalling(w, time, depth) ==
    LET hidden == setAllHiddenFrom(w, w.recordStore, time, 1)
        flushed == flushQueuedEntriesCalling(hidden, time, depth)
    IN  IF flushed.raised THEN flushed
        ELSE [flushed EXCEPT !.recordStore = <<>>]

\* handleObserverEntry(entry); a target without a record makes record undefined
\* and the assignment to record.lastSeenEntry raises
handleObserverEntryCalling(w, isPaused, entry, t) ==
    IF \A k \in DOMAIN w.recordStore : w.recordStore[k].id # entry.target
    THEN [w EXCEPT !.raised = TRUE]
    ELSE
        LET rid == StoreRec(w.recordStore, entry.target)
            w1 == [w EXCEPT !.recs[rid].lastSeenEntry = Some(entry)]
        IN  IF ~isPaused
            THEN flushQueuedEntriesCalling(
                    handleObserverEntryFrom(w1, w.recordStore, entry, rid, 1, t), t, 1)
            ELSE w1

\* internalCallback(records), from i on; an exception ends the forEach
RECURSIVE internalCallbackCallingFrom(_, _, _, _, _)
internalCallbackCallingFrom(w, isPaused, records, i, t) ==
    IF i > Len(records) \/ w.raised THEN w
    ELSE internalCallbackCallingFrom(
            handleObserverEntryCalling(w, isPaused, records[i], t), isPaused, records, i + 1, t)

----------------------------------------------------------------------------
(* State after construction, and the operations *)

TheWorld == World(recs, timers, queuedEntries, calls)

\* non-empty batches of raw samples, one per tracked element at most
InjectiveSeqs(S, n) == {q \in [1..n -> S] : Injective(q)}

Batches(keys, t) ==
    UNION {{[i \in 1..n |-> Sample(es[i], rs[i], t)] :
                es \in InjectiveSeqs(keys, n), rs \in [1..n -> Ratios]} :
           n \in 1..Cardinality(keys)}

\* constructor
Init ==
    /\ thresholds \in SortByRatio(ThresholdOption)
    /\ callback = "collect"
    /\ paused = FALSE
    /\ queuedEntries = <<>>
    /\ recordStore = <<>>
    /\ recs = <<>>
    /\ timers = {}
    /\ pendingWork = {}
    /\ now = 1
    /\ inputs = 0
    /\ budget = MaxInputs
    /\ satisfiedSince = <<>>
    /\ disconnected = FALSE
    /\ received = [e \in Elements |-> None]
    /\ entered = {}
    /\ calls = <<>>
    /\ lastOp = [op |-> "new"]

\* history of the last step, which ran at time t and took the heap from rs to rs2:
\* a state whose lastSatisfied turned true began a period of satisfaction at t
Since(since, rs, rs2, t) ==
    [p \in (DOMAIN rs2) \X (DOMAIN thresholds) |->
        LET after == rs2[p[1]].thresholdStates[p[2]].lastSatisfied
            before == p[1] \in DOMAIN rs /\ rs[p[1]].thresholdStates[p[2]].lastSatisfied
        IN  IF ~after THEN 0
            ELSE IF before THEN since[p]
            ELSE t]

\* the entries of the callback invocations cs, in the order the callback saw them
RECURSIVE Flatten(_)
Flatten(cs) == IF cs = <<>> THEN <<>> ELSE Head(cs) \o Flatten(Tail(cs))

\* history of the callback: the pairs whose last event is entering, after the
\* callback has seen the entries es
RECURSIVE AfterDelivery(_, _)
AfterDelivery(ent, es) ==
    IF es = <<>> THEN ent
    ELSE LET x == Head(es)
             pair == <<x.target, x.label>>
         IN  AfterDelivery(IF x.entering = Some(TRUE) THEN ent \cup {pair} ELSE ent \ {pair},
                           Tail(es))

\* history of the intersection primitive: the batch `records` was delivered while
\* the gate was (or was not) paused
Receive(rcv, records, isPaused) ==
    [e \in Elements |->
        IF \E k \in DOMAIN records : records[k].target = e
        THEN Some([sample |-> records[CHOOSE k \in DOMAIN records : records[k].target = e],
                   paused |-> isPaused])
        ELSE rcv[e]]

\* the fresh record of observe(target, payload)
NewRecord(target, payload) ==
    [target |-> target,
     payload |-> payload,
     lastSeenEntry |-> None,
     thresholdStates |->
        [i \in DOMAIN thresholds |->
            [lastSatisfied |-> FALSE,
             lastEntry |-> None,
             threshold |-> thresholds[i],
             visible |-> FALSE,
             lastVisible |-> None,
             timeoutId |-> None]]]

\* observe(target, payload) of an element that is not tracked
Observe(target, payload) ==
    /\ inputs < budget
    /\ inputs' = inputs + 1
    /\ target \notin StoreKeys
    /\ LET rid == CHOOSE r \in 1..(Cardinality(DOMAIN recs) + 1) :
                    r \notin DOMAIN recs /\ \A q \in 1..(r - 1) : q \in DOMAIN recs
       IN  /\ recs' = [r \in (DOMAIN recs) \cup {rid} |->
                          IF r = rid THEN NewRecord(target, payload) ELSE recs[r]]
           /\ recordStore' = Append(recordStore, [id |-> target, rec |-> rid])
    /\ calls' = <<>>
    /\ lastOp' = [op |-> "observe", target |-> target]
    /\ UNCHANGED <<thresholds, callback, budget, paused, queuedEntries, timers, pendingWork, now>>
    /\ satisfiedSince' = Since(satisfiedSince, recs, recs', now)
    /\ disconnected' = FALSE
    /\ received' = [received EXCEPT ![target] = None]
    /\ entered' = AfterDelivery(entered, Flatten(calls'))

\* unobserve that schedules the exit but leaves the record in the store
Unobserve_KeepRecord(element) ==
    /\ inputs < budget
    /\ inputs' = inputs + 1
    /\ IF element \in StoreKeys
       THEN /\ pendingWork' = pendingWork \cup {StoreRec(recordStore, element)}
            /\ UNCHANGED recordStore
       ELSE UNCHANGED <<recordStore, pendingWork>>
    /\ calls' = <<>>
    /\ lastOp' = [op |-> "unobserve", target |-> element]
    /\ UNCHANGED <<thresholds, callback, budget, received, disconnected, paused, queuedEntries, recs, timers, now>>
    /\ satisfiedSince' = Since(satisfiedSince, recs, recs', now)
    /\ entered' = AfterDelivery(entered, Flatten(calls'))

\* unobserve that empties the store when the element has no record
Unobserve_ClearStore(element) ==
    /\ inputs < budget
    /\ inputs' = inputs + 1
    /\ IF element \in StoreKeys
       THEN /\ recordStore' = RemoveKey(recordStore, element)
            /\ pendingWork' = pendingWork \cup {StoreRec(recordStore, element)}
       ELSE /\ recordStore' = <<>>
            /\ UNCHANGED pendingWork
    /\ calls' = <<>>
    /\ lastOp' = [op |-> "unobserve", target |-> element]
    /\ UNCHANGED <<thresholds, callback, budget, received, disconnected, paused, queuedEntries, recs, timers, now>>
    /\ satisfiedSince' = Since(satisfiedSince, recs, recs', now)
    /\ entered' = AfterDelivery(entered, Flatten(calls'))

\* unobserve(element)
Unobserve(element) ==
    /\ inputs < budget
    /\ inputs' = inputs + 1
    /\ IF element \in StoreKeys
       THEN /\ recordStore' = RemoveKey(recordStore, element)
            /\ pendingWork' = pendingWork \cup {StoreRec(recordStore, element)}
       ELSE UNCHANGED <<recordStore, pendingWork>>
    /\ calls' = <<>>
    /\ lastOp' = [op |-> "unobserve", target |-> element]
    /\ UNCHANGED <<thresholds, callback, budget, disconnected, paused, queuedEntries, recs, timers, now>>
    /\ satisfiedSince' = Since(satisfiedSince, recs, recs', now)
    /\ received' = [received EXCEPT ![element] = None]
    /\ entered' = AfterDelivery(entered, Flatten(calls'))

\* the closure unobserve handed to scheduleWork, run for the removed record rid
RunWork(rid) ==
    /\ rid \in pendingWork
    /\ LET w == flushQueuedEntries(
                    handleRecordExiting([TheWorld EXCEPT !.calls = <<>>], rid, now))
       IN  /\ pendingWork' = pendingWork \ {rid}
           /\ recs' = Collect(w.recs, recordStore, pendingWork \ {rid}, w.timers)
           /\ timers' = w.timers
           /\ queuedEntries' = w.queuedEntries
           /\ calls' = w.calls
    /\ lastOp' = [op |-> "work", rec |-> rid]
    /\ UNCHANGED <<thresholds, callback, budget, received, disconnected, paused, recordStore, now, inputs>>
    /\ satisfiedSince' = Since(satisfiedSince, recs, recs', now)
    /\ entered' = AfterDelivery(entered, Flatten(calls'))

\* disconnect()
Disconnect ==
    /\ inputs < budget
    /\ inputs' = inputs + 1
    /\ LET w == setAllHidden([TheWorld EXCEPT !.calls = <<>>], recordStore, now)
       IN  /\ recs' = Collect(w.recs, <<>>, pendingWork, w.timers)
           /\ timers' = w.timers
           /\ queuedEntries' = w.queuedEntries
           /\ calls' = w.calls
    /\ recordStore' = <<>>
    /\ lastOp' = [op |-> "disconnect"]
    /\ UNCHANGED <<thresholds, callback, budget, paused, pendingWork, now>>
    /\ satisfiedSince' = Since(satisfiedSince, recs, recs', now)
    /\ disconnected' = TRUE
    /\ received' = [e \in Elements |-> None]
    /\ entered' = AfterDelivery(entered, Flatten(calls'))

\* onTabHidden, on the page-hidden signal (signal = "hide") and, through
\* onWindowClosed, on the unload signal (signal = "unload")
TabHidden(signal) ==
    /\ inputs < budget
    /\ inputs' = inputs + 1
    /\ paused' = TRUE
    /\ LET w == setAllHidden([TheWorld EXCEPT !.calls = <<>>], recordStore, now)
       IN  /\ recs' = w.recs
           /\ timers' = w.timers
           /\ queuedEntries' = w.queuedEntries
           /\ calls' = w.calls
    /\ lastOp' = [op |-> signal]
    /\ UNCHANGED <<thresholds, callback, budget, received, disconnected, recordStore, pendingWork, now>>
    /\ satisfiedSince' = Since(satisfiedSince, recs, recs', now)
    /\ entered' = AfterDelivery(entered, Flatten(calls'))

OnTabHidden == TabHidden("hide")

OnWindowClosed == TabHidden("unload")

\* onTabShown, on the page-shown signal
OnTabShown ==
    /\ inputs < budget
    /\ inputs' = inputs + 1
    /\ paused' = FALSE
    /\ LET w == onTabShownFrom([TheWorld EXCEPT !.calls = <<>>], recordStore, now, 1)
       IN  /\ recs' = w.recs
           /\ timers' = w.timers
           /\ queuedEntries' = w.queuedEntries
           /\ calls' = w.calls
    /\ lastOp' = [op |-> "show"]
    /\ UNCHANGED <<thresholds, callback, budget, received, disconnected, recordStore, pendingWork, now>>
    /\ satisfiedSince' = Since(satisfiedSince, recs, recs', now)
    /\ entered' = AfterDelivery(entered, Flatten(calls'))

\* internalCallback(records): the intersection primitive delivers a batch
InternalCallback(records) ==
    /\ inputs < budget
    /\ inputs' = inputs + 1
    /\ LET w == internalCallbackFrom([TheWorld EXCEPT !.calls = <<>>],
                                     recordStore, paused, records, 1, now)
       IN  /\ recs' = w.recs
           /\ timers' = w.timers
           /\ queuedEntries' = w.queuedEntries
           /\ calls' = w.calls
    /\ lastOp' = [op |-> "samples", targets |-> [i \in DOMAIN records |-> records[i].target]]
    /\ UNCHANGED <<thresholds, callback, budget, disconnected, paused, recordStore, pendingWork, now>>
    /\ satisfiedSince' = Since(satisfiedSince, recs, recs', now)
    /\ received' = Receive(received, records, paused)
    /\ entered' = AfterDelivery(entered, Flatten(calls'))

\* a setTimeout callback that neither confirms the state nor calls the callback
TimerFire_NoConfirm(tm) ==
    /\ tm \in timers
    /\ now >= tm.due
    /\ recs' = recs
    /\ calls' = <<>>
    /\ timers' = timers \ {tm}
    /\ lastOp' = [op |-> "timer", rec |-> tm.rec, idx |-> tm.idx, id |-> tm.id]
    /\ UNCHANGED <<thresholds, callback, budget, received, disconnected, paused, queuedEntries, recordStore, pendingWork, now, inputs>>
    /\ satisfiedSince' = Since(satisfiedSince, recs, recs', now)
    /\ entered' = AfterDelivery(entered, Flatten(calls'))

\* the setTimeout callback of handleObserverEntry, once its delay has passed
TimerFire(tm) ==
    /\ tm \in timers
    /\ now >= tm.due
    /\ LET state == recs[tm.rec].thresholdStates[tm.idx]
           spanielEntry == [tm.entry EXCEPT
                                !.duration = now - ToNumber(state.lastVisible)]
       IN  /\ recs' = [recs EXCEPT ![tm.rec].thresholdStates[tm.idx].visible = TRUE]
           /\ calls' = << <<spanielEntry>> >>
    /\ timers' = timers \ {tm}
    /\ lastOp' = [op |-> "timer", rec |-> tm.rec, idx |-> tm.idx, id |-> tm.id]
    /\ UNCHANGED <<thresholds, callback, budget, received, disconnected, paused, queuedEntries, recordStore, pendingWork, now, inputs>>
    /\ satisfiedSince' = Since(satisfiedSince, recs, recs', now)
    /\ entered' = AfterDelivery(entered, Flatten(calls'))

\* time passes
Tick ==
    /\ now < MaxTime
    /\ now' = now + 1
    /\ calls' = <<>>
    /\ lastOp' = [op |-> "tick"]
    /\ UNCHANGED <<thresholds, callback, budget, received, disconnected, paused, queuedEntries, recordStore, recs, timers,
                   pendingWork, inputs>>
    /\ satisfiedSince' = Since(satisfiedSince, recs, recs', now)
    /\ entered' = AfterDelivery(entered, Flatten(calls'))

Next ==
    \/ \E target \in Elements : Observe(target, PayloadOf(target))
    \/ \E element \in Elements : Unobserve(element)
    \/ \E rid \in pendingWork : RunWork(rid)
    \/ Disconnect
    \/ OnTabHidden
    \/ OnWindowClosed
    \/ OnTabShown
    \/ \E records \in Batches(StoreKeys, now) : InternalCallback(records)
    \/ \E tm \in timers : TimerFire(tm)
    \/ Tick

Spec == Init /\ [][Next]_vars

\* The observer used on a single element, which the caller may observe again after
\* unobserving it, with a longer run of calls, samples and hidden / shown signals.
InitSolo ==
    /\ thresholds \in SortByRatio(ThresholdOption)
    /\ callback = "collect"
    /\ paused = FALSE
    /\ queuedEntries = <<>>
    /\ recordStore = <<>>
    /\ recs = <<>>
    /\ timers = {}
    /\ pendingWork = {}
    /\ now = 1
    /\ inputs = 0
    /\ budget = MaxSoloInputs
    /\ satisfiedSince = <<>>
    /\ disconnected = FALSE
    /\ received = [e \in Elements |-> None]
    /\ entered = {}
    /\ calls = <<>>
    /\ lastOp = [op |-> "new"]

NextSolo ==
    \/ Observe(SoloElement, PayloadOf(SoloElement))
    \/ Unobserve(SoloElement)
    \/ \E rid \in pendingWork : RunWork(rid)
    \/ OnTabHidden
    \/ OnTabShown
    \/ \E records \in Batches(StoreKeys, now) : InternalCallback(records)
    \/ \E tm \in timers : TimerFire(tm)
    \/ Tick

SpecSolo == InitSolo /\ [][NextSolo]_vars

\* The same runs with the event loop doing its part: the clock advances and a
\* setTimeout callback whose delay has passed is eventually run.
FairSpecSolo ==
    /\ SpecSolo
    /\ WF_vars(Tick)
    /\ WF_vars(\E tm \in timers : TimerFire(tm))

\* The observer constructed with the single threshold without a time component
\* and a callback that calls disconnect(), used on one element.
ReentrantThresholdOption == SubSeq(ThresholdOption, 1, 1)

InitReentrant ==
    /\ thresholds \in SortByRatio(ReentrantThresholdOption)
    /\ callback \in {"disconnectOnce", "disconnectAlways"}
    /\ paused = FALSE
    /\ queuedEntries = <<>>
    /\ recordStore = <<>>
    /\ recs = <<>>
    /\ timers = {}
    /\ pendingWork = {}
    /\ now = 1
    /\ inputs = 0
    /\ budget = MaxSoloInputs
    /\ satisfiedSince = <<>>
    /\ disconnected = FALSE
    /\ received = [e \in Elements |-> None]
    /\ entered = {}
    /\ calls = <<>>
    /\ lastOp = [op |-> "new"]

\* internalCallback(records) of an observer whose callback may call disconnect()
InternalCallbackCalling(records) ==
    /\ inputs < budget
    /\ inputs' = inputs + 1
    /\ LET w == internalCallbackCallingFrom(
                    ReentrantWorld(recs, timers, queuedEntries, <<>>, callback, recordStore),
                    paused, records, 1, now)
       IN  /\ recs' = Collect(w.recs, w.recordStore, pendingWork, w.timers)
           /\ timers' = w.timers
           /\ queuedEntries' = w.queuedEntries
           /\ calls' = w.calls
           /\ callback' = w.callback
           /\ recordStore' = w.recordStore
           /\ disconnected' =
                IF w.calls # <<>> /\ callback \in {"disconnectOnce", "disconnectAlways"}
                THEN TRUE ELSE disconnected
           /\ lastOp' = [op |-> "samples",
                         targets |-> [i \in DOMAIN records |-> records[i].target],
                         raised |-> w.raised]
    /\ UNCHANGED <<thresholds, budget, paused, pendingWork, now>>
    /\ satisfiedSince' = Since(satisfiedSince, recs, recs', now)
    /\ received' = Receive(received, records, paused)
    /\ entered' = AfterDelivery(entered, Flatten(calls'))

NextReentrant ==
    \/ Observe(SoloElement, PayloadOf(SoloElement))
    \/ \E records \in Batches(StoreKeys, now) : InternalCallbackCalling(records)
    \/ Tick

SpecReentrant == InitReentrant /\ [][NextReentrant]_vars

----------------------------------------------------------------------------
(* Vocabulary of the properties *)

\* every entry the callback received during the last step
Delivered(cs) == UNION {Range(cs[c]) : c \in DOMAIN cs}

\* the entries among es that belong to target e and the threshold labelled l
EntriesFor(es, e, l) == {x \in es : x.target = e /\ x.label = l}

IsEntering(x) == x.entering = Some(TRUE)
IsExiting(x) == x.entering = Some(FALSE)

HasTime(i) == thresholds[i].time # 0

\* pending dwell timers of thresholdStates[i] of record rid
TimersOf(ts, rid, i) == {t \in ts : t.rec = rid /\ t.idx = i}

\* the entering event handleObserverEntry builds from a sample for thresholdStates[i]
EnteringEntry(sample, rid, i, d) ==
    [intersectionRatio  |-> sample.intersectionRatio,
     time               |-> sample.time,
     rootBounds         |-> sample.rootBounds,
     boundingClientRect |-> sample.boundingClientRect,
     intersectionRect   |-> sample.intersectionRect,
     target             |-> sample.target,
     duration           |-> d,
     entering           |-> Some(TRUE),
     payload            |-> PayloadOf(sample.target),
     label              |-> thresholds[i].label]

----------------------------------------------------------------------------
(* C1 *)

\* C1: while the gate is not paused, a processed sample that satisfies the
\* ratio of a threshold without a time component, when the previous processed
\* sample did not (lastSatisfied = false), delivers the entering event
\* (entering = true, duration = 0, the threshold's label, the record's payload)
\* in the flush that ends the processing of that sample - a callback
\* invocation holding entries of that sample's target only - and leaves the
\* state with visible = true and lastSatisfied = true.
C1_EnteringInSameFlush ==
    [][(lastOp'.op = "samples" /\ ~paused) =>
        \A k \in DOMAIN lastOp'.targets :
            LET e == lastOp'.targets[k]
                rid == StoreRec(recordStore, e)
                sample == recs'[rid].lastSeenEntry[1]
            IN  \A i \in DOMAIN thresholds :
                    (/\ ~HasTime(i)
                     /\ sample.intersectionRatio >= thresholds[i].ratio
                     /\ ~recs[rid].thresholdStates[i].lastSatisfied)
                    =>
                    /\ \E c \in DOMAIN calls' :
                        /\ EnteringEntry(sample, rid, i, 0) \in Range(calls'[c])
                        /\ \A x \in Range(calls'[c]) : x.target = e
                    /\ recs'[rid].thresholdStates[i].visible
                    /\ recs'[rid].thresholdStates[i].lastSatisfied
      ]_vars

\* a batch was processed in which a sample crossed the threshold without a time
\* component, and its entering event reached the callback
C1_Witness ==
    /\ lastOp.op = "samples"
    /\ \E x \in Delivered(calls) :
        /\ IsEntering(x) /\ x.label = "50pct" /\ x.duration = 0
        /\ x.intersectionRatio = 5
        /\ x.payload = "p1"

----------------------------------------------------------------------------
(* C2 *)

\* C2: an entering event of a threshold with a time component T is delivered
\* only by the dwell timer, for a threshold state whose most recent processed
\* sample is the continuation of the rising edge that started this timer: the
\* state still has lastSatisfied = true and a last sample that satisfies the
\* ratio (no failing sample and no forced exit since), the rising edge is at
\* least T old, the callback is invoked once with exactly that one entry while
\* the entry queue is left alone, and the entry's duration is at least T.
C2_EnteringAfterDwell ==
    [][/\ \A x \in Delivered(calls') :
            (IsEntering(x) /\ \E i \in DOMAIN thresholds : HasTime(i) /\ x.label = thresholds[i].label)
            => lastOp'.op = "timer"
       /\ lastOp'.op = "timer" =>
            LET state == recs[lastOp'.rec].thresholdStates[lastOp'.idx]
                T == state.threshold.time
            IN  /\ T # 0
                /\ state.lastSatisfied
                /\ state.lastEntry # None
                /\ state.lastEntry[1].intersectionRatio >= state.threshold.ratio
                /\ state.lastVisible # None
                /\ now - state.lastVisible[1] >= T
                /\ Len(calls') = 1
                /\ Len(calls'[1]) = 1
                /\ LET x == calls'[1][1]
                   IN  /\ IsEntering(x)
                       /\ x.label = state.threshold.label
                       /\ x.target = recs[lastOp'.rec].target
                       /\ x.time = state.lastVisible[1]
                       /\ x.duration = now - x.time
                       /\ x.duration >= T
                /\ queuedEntries' = queuedEntries
                /\ recs'[lastOp'.rec].thresholdStates[lastOp'.idx].visible
      ]_vars

\* a dwell timer fired and delivered its entering event, later than its delay
C2_Witness ==
    /\ lastOp.op = "timer"
    /\ Len(calls) = 1
    /\ Len(calls[1]) = 1
    /\ IsEntering(calls[1][1])
    /\ calls[1][1].label = "viewable"
    /\ calls[1][1].duration > DwellTime

----------------------------------------------------------------------------
(* C3 *)

\* C3: when a sample that does not satisfy the ratio of a threshold with a time
\* component is processed while the dwell timer its rising edge started is
\* still pending, the step delivers neither an entering nor an exiting event
\* for that threshold state, the timer is cancelled (so it can never deliver
\* the entering event), and the state ends with lastSatisfied = false and
\* visible = false.
C3_FailingSampleCancelsDwell ==
    [][(lastOp'.op = "samples" /\ ~paused) =>
        \A k \in DOMAIN lastOp'.targets :
            LET e == lastOp'.targets[k]
                rid == StoreRec(recordStore, e)
                sample == recs'[rid].lastSeenEntry[1]
            IN  \A i \in DOMAIN thresholds :
                    (/\ HasTime(i)
                     /\ sample.intersectionRatio < thresholds[i].ratio
                     /\ TimersOf(timers, rid, i) # {})
                    =>
                    /\ EntriesFor(Delivered(calls'), e, thresholds[i].label) = {}
                    /\ TimersOf(timers', rid, i) = {}
                    /\ \A tm \in TimersOf(timers, rid, i) : tm \notin timers'
                    /\ ~recs'[rid].thresholdStates[i].lastSatisfied
                    /\ ~recs'[rid].thresholdStates[i].visible
      ]_vars

\* a failing sample was processed while a dwell timer was pending: the state has
\* a timer handle, no timer is pending for it and it never became visible
C3_Witness ==
    /\ lastOp.op = "samples"
    /\ ~paused
    /\ \E k \in DOMAIN lastOp.targets :
        LET rid == StoreRec(recordStore, lastOp.targets[k])
        IN  \E i \in DOMAIN thresholds :
                /\ HasTime(i)
                /\ recs[rid].thresholdStates[i].timeoutId # None
                /\ recs[rid].thresholdStates[i].lastVisible = Some(now)
                /\ recs[rid].lastSeenEntry[1].intersectionRatio < thresholds[i].ratio
                /\ TimersOf(timers, rid, i) = {}
                /\ ~recs[rid].thresholdStates[i].lastSatisfied

----------------------------------------------------------------------------
(* C4 *)

\* the threshold state an exiting entry of the last step belongs to
ExitingRecord(x) ==
    IF lastOp'.op = "work" THEN lastOp'.rec ELSE StoreRec(recordStore, x.target)

ThresholdIndex(l) == CHOOSE i \in DOMAIN thresholds : thresholds[i].label = l

\* C4: every exiting event, of a threshold with or without a time component,
\* caused by a sample or forced, has a duration equal to its exit time minus the
\* time of the sample at which the current period of ratio satisfaction began.
C4_ExitDuration ==
    [][\A x \in Delivered(calls') :
        IsExiting(x) =>
            x.duration = x.time - satisfiedSince[<<ExitingRecord(x), ThresholdIndex(x.label)>>]
      ]_vars

----------------------------------------------------------------------------
(* C5 *)

\* the (store position, threshold index) pairs of the store that are confirmed visible
VisiblePairs(store, rs) ==
    {p \in (DOMAIN store) \X (DOMAIN thresholds) :
        rs[store[p[1]].rec].thresholdStates[p[2]].visible}

\* x is the forced exit of thresholdStates[i] of a record with this target and payload
IsForcedExit(x, target, payload, i) ==
    /\ IsExiting(x)
    /\ x.intersectionRatio = -1
    /\ x.rootBounds = emptyRect
    /\ x.boundingClientRect = emptyRect
    /\ x.intersectionRect = emptyRect
    /\ x.target = target
    /\ x.payload = payload
    /\ x.label = thresholds[i].label
    /\ x.time = now

\* the callback was invoked once with one forced exit per pair of V and nothing
\* else, or not at all when V is empty
ForcedExitsDelivered(cs, V, store, rs) ==
    IF V = {} THEN cs = <<>>
    ELSE /\ Len(cs) = 1
         /\ Len(cs[1]) = Cardinality(V)
         /\ \A p \in V :
                \E j \in DOMAIN cs[1] :
                    IsForcedExit(cs[1][j], store[p[1]].id, rs[store[p[1]].rec].payload, p[2])

\* C5: a page-hidden or unload signal pauses the gate and delivers, in exactly
\* one callback invocation (none if there is nothing to deliver), one exiting
\* event with intersectionRatio -1 and the empty rect for all geometry for
\* exactly the (record, threshold) pairs of the store that were visible;
\* afterwards every threshold state in the store has lastSatisfied = false,
\* visible = false, lastEntry = null and no pending dwell timer.
C5_HideForcesExit ==
    [][lastOp'.op \in {"hide", "unload"} =>
        /\ paused'
        /\ ForcedExitsDelivered(calls', VisiblePairs(recordStore, recs), recordStore, recs)
        /\ recordStore' = recordStore
        /\ \A k \in DOMAIN recordStore, i \in DOMAIN thresholds :
            LET rid == recordStore[k].rec
                state == recs'[rid].thresholdStates[i]
            IN  /\ ~state.lastSatisfied
                /\ ~state.visible
                /\ state.lastEntry = None
                /\ TimersOf(timers', rid, i) = {}
      ]_vars

\* the page was hidden while two thresholds were visible and both exits arrived in
\* one invocation
C5_Witness ==
    /\ lastOp.op = "hide"
    /\ paused
    /\ Len(calls) = 1
    /\ Len(calls[1]) >= 2
    /\ \A j \in DOMAIN calls[1] : IsExiting(calls[1][j]) /\ calls[1][j].intersectionRatio = -1

----------------------------------------------------------------------------
(* C6 *)

\* C6: a page-shown signal received while paused makes the gate active and
\* re-evaluates every record that has a last sample against that sample
\* re-stamped to the current time: each threshold without a time component that
\* the sample satisfies delivers a new entering event (duration 0) in that step,
\* and each threshold with a time component T that it satisfies gets exactly one
\* fresh dwell timer, due T after the show, with lastVisible = now and no
\* entering event yet; records without a last sample are left as they are.
C6_ShowReevaluates ==
    [][(lastOp'.op = "show" /\ paused) =>
        /\ ~paused'
        /\ \A k \in DOMAIN recordStore :
            LET rid == recordStore[k].rec
                e == recordStore[k].id
            IN  IF recs[rid].lastSeenEntry = None
                THEN recs'[rid] = recs[rid]
                ELSE
                    LET sample == [recs[rid].lastSeenEntry[1] EXCEPT !.time = now]
                    IN  /\ recs'[rid].lastSeenEntry = Some(sample)
                        /\ \A i \in DOMAIN thresholds :
                            LET state == recs'[rid].thresholdStates[i]
                                entries == EntriesFor(Delivered(calls'), e, thresholds[i].label)
                            IN  IF sample.intersectionRatio < thresholds[i].ratio
                                THEN entries = {} /\ TimersOf(timers', rid, i) = {}
                                ELSE IF ~HasTime(i)
                                THEN /\ entries = {EnteringEntry(sample, rid, i, 0)}
                                     /\ state.visible
                                ELSE /\ entries = {}
                                     /\ ~state.visible
                                     /\ state.lastVisible = Some(now)
                                     /\ \E tm \in timers' :
                                            /\ TimersOf(timers', rid, i) = {tm}
                                            /\ tm \notin timers
                                            /\ tm.due = now + thresholds[i].time
                                            /\ tm.entry = EnteringEntry(sample, rid, i, 0)
      ]_vars

\* the page was shown again later than the last sample was taken: the entering
\* event of the threshold without a time component carries the time of the show,
\* and a dwell timer is pending for the other threshold
C6_Witness ==
    /\ lastOp.op = "show"
    /\ now > 1
    /\ \E x \in Delivered(calls) :
        /\ IsEntering(x) /\ x.label = "50pct" /\ x.time = now /\ x.duration = 0
        /\ \E tm \in timers :
            /\ tm.due = now + DwellTime
            /\ tm.entry.target = x.target
            /\ tm.entry.label = "viewable"
    /\ \A r \in DOMAIN recs : recs[r].lastSeenEntry # None => recs[r].lastSeenEntry[1].time = now
    /\ inputs = 4

----------------------------------------------------------------------------
(* C7 *)

\* C7: while the gate is paused, a delivered batch of raw samples leaves every
\* field of every threshold state unchanged, starts and cancels no timer, leaves
\* the entry queue unchanged and does not invoke the callback.
C7_PausedSamplesDropped ==
    [][(lastOp'.op = "samples" /\ paused) =>
        /\ DOMAIN recs' = DOMAIN recs
        /\ \A r \in DOMAIN recs : recs'[r].thresholdStates = recs[r].thresholdStates
        /\ timers' = timers
        /\ queuedEntries' = queuedEntries
        /\ calls' = <<>>
        /\ paused'
      ]_vars

\* a sample that satisfies both thresholds arrived while the gate was paused and
\* was stored, and the thresholds of its record did not move
C7_Witness ==
    /\ lastOp.op = "samples"
    /\ paused
    /\ \E k \in DOMAIN lastOp.targets :
        LET record == recs[StoreRec(recordStore, lastOp.targets[k])]
        IN  /\ record.lastSeenEntry # None
            /\ record.lastSeenEntry[1].intersectionRatio = 8
            /\ \A i \in DOMAIN thresholds :
                /\ ~record.thresholdStates[i].lastSatisfied
                /\ record.thresholdStates[i].lastEntry = None

----------------------------------------------------------------------------
(* C8 *)

\* the entries handleObserverEntry is to queue for a sample of the record rid, given
\* the threshold states rs the sample meets: an entering entry for each threshold
\* without a time component that it newly satisfies, an exiting entry for each
\* visible threshold that it fails
ExpectedEntries(sample, rid, rs) ==
    {EnteringEntry(sample, rid, i, 0) :
        i \in {j \in DOMAIN thresholds :
                /\ ~HasTime(j)
                /\ sample.intersectionRatio >= thresholds[j].ratio
                /\ ~rs[rid].thresholdStates[j].lastSatisfied}}
    \cup
    {[EnteringEntry(sample, rid, i,
                    sample.time - ToNumber(rs[rid].thresholdStates[i].lastVisible))
        EXCEPT !.entering = Some(FALSE)] :
        i \in {j \in DOMAIN thresholds :
                /\ sample.intersectionRatio < thresholds[j].ratio
                /\ rs[rid].thresholdStates[j].visible}}

----------------------------------------------------------------------------
(* C9 *)

\* the threshold indexes of record rid that are confirmed visible
VisibleThresholds(rs, rid) ==
    {i \in DOMAIN thresholds : rs[rid].thresholdStates[i].visible}

\* C9: unobserve of a tracked element removes its record from the store before
\* returning, invokes no callback and schedules the deferred work; when that work
\* runs it delivers, in one callback invocation, exactly one exiting event for
\* each threshold of the record that is visible by then (no invocation if there
\* is none), leaves no dwell timer of the record pending and resets all its
\* threshold states.
C9_UnobserveDefersExit ==
    [][/\ (lastOp'.op = "unobserve" /\ lastOp'.target \in StoreKeys) =>
            LET rid == StoreRec(recordStore, lastOp'.target)
            IN  /\ \A k \in DOMAIN recordStore' : recordStore'[k].id # lastOp'.target
                /\ Len(recordStore') = Len(recordStore) - 1
                /\ calls' = <<>>
                /\ rid \in pendingWork'
                /\ recs'[rid] = recs[rid]
                /\ timers' = timers
       /\ lastOp'.op = "work" =>
            LET rid == lastOp'.rec
                V == VisibleThresholds(recs, rid)
                after == handleRecordExiting(TheWorld, rid, now).recs[rid]
            IN  /\ rid \in pendingWork /\ rid \notin pendingWork'
                /\ rid \notin StoreRecs(recordStore)
                /\ IF V = {} THEN calls' = <<>>
                   ELSE /\ Len(calls') = 1
                        /\ Len(calls'[1]) = Cardinality(V)
                        /\ \A i \in V : \E j \in DOMAIN calls'[1] :
                              IsForcedExit(calls'[1][j], recs[rid].target, recs[rid].payload, i)
                /\ \A tm \in timers' : tm.rec # rid
                /\ \A i \in DOMAIN thresholds :
                    /\ ~after.thresholdStates[i].lastSatisfied
                    /\ ~after.thresholdStates[i].visible
                    /\ after.thresholdStates[i].lastEntry = None
      ]_vars

\* the deferred work of an unobserve ran and delivered the exits of a record that
\* is no longer in the store
C9_Witness ==
    /\ lastOp.op = "work"
    /\ Len(calls) = 1
    /\ Len(calls[1]) = 2
    /\ \A j \in DOMAIN calls[1] :
        /\ IsExiting(calls[1][j])
        /\ calls[1][j].intersectionRatio = -1
        /\ calls[1][j].target \notin StoreKeys

----------------------------------------------------------------------------
(* C10 *)

\* C10: disconnect delivers, in one callback invocation made before it returns,
\* one exiting event for every (record, threshold) pair of the store that was
\* visible (no invocation if there is none), leaves no dwell timer of a record
\* of the store pending, and leaves the store empty.
C10_DisconnectForcesExit ==
    [][lastOp'.op = "disconnect" =>
        /\ ForcedExitsDelivered(calls', VisiblePairs(recordStore, recs), recordStore, recs)
        /\ \A tm \in timers' : tm.rec \notin StoreRecs(recordStore)
        /\ recordStore' = <<>>
        /\ queuedEntries' = <<>>
      ]_vars

\* disconnect ran while the threshold without a time component was visible: its
\* exit was delivered in the call, and the store is empty with no timer left
C10_Witness ==
    /\ lastOp.op = "disconnect"
    /\ Len(calls) = 1
    /\ IsExiting(calls[1][1])
    /\ calls[1][1].label = "50pct"
    /\ Len(calls[1]) = 1
    /\ calls[1][1].time = 1
    /\ recordStore = <<>>
    /\ timers = {}
    /\ pendingWork = {}

----------------------------------------------------------------------------
(* C11 *)

\* the entries es, seen by the callback in this order after the history ent, keep
\* the alternation: an entering event only for a pair whose last event is not
\* entering, an exiting event only for a pair whose last event is entering
RECURSIVE Alternates(_, _)
Alternates(ent, es) ==
    IF es = <<>> THEN TRUE
    ELSE LET x == Head(es)
             pair == <<x.target, x.label>>
         IN  /\ IsEntering(x) => pair \notin ent
             /\ IsExiting(x) => pair \in ent
             /\ Alternates(AfterDelivery(ent, <<x>>), Tail(es))

\* C11: for each (element, threshold) pair the events delivered to the callback
\* alternate entering, exiting, entering, ... starting with entering, in every
\* run in which the caller never observes an element that is tracked - also when
\* it observes an element again after unobserving it.
C11_StrictAlternation ==
    [][Alternates(entered, Flatten(calls'))]_vars

----------------------------------------------------------------------------
(* C12 *)

\* C12: the callback is never invoked with an empty sequence: every invocation
\* a step made carries at least one entry, and a dwell timer's step makes
\* exactly one invocation, with exactly one entry.
C12_NoEmptyInvocation ==
    /\ \A c \in DOMAIN calls : Len(calls[c]) >= 1
    /\ lastOp.op = "timer" => (Len(calls) = 1 /\ Len(calls[1]) = 1)

\* the deferred work of an unobserve ran after a hide, when no threshold of its
\* record was visible any more, and the callback was not invoked
C12_Witness ==
    /\ lastOp.op = "work"
    /\ calls = <<>>
    /\ paused
    /\ queuedEntries = <<>>

----------------------------------------------------------------------------
(* C13 *)

\* C13: unobserve of an element that has no record in the store changes
\* nothing: the store, every record and threshold state, the entry queue, the
\* pending timers and the gate stay as they are, no deferred work is scheduled
\* and the callback is not invoked.
C13_UnobserveUntracked ==
    [][(lastOp'.op = "unobserve" /\ lastOp'.target \notin StoreKeys) =>
        /\ recordStore' = recordStore
        /\ recs' = recs
        /\ queuedEntries' = queuedEntries
        /\ timers' = timers
        /\ pendingWork' = pendingWork
        /\ paused' = paused
        /\ calls' = <<>>
      ]_vars

\* unobserve was called for an element without a record while another element
\* was tracked and visible, and no work is scheduled
C13_Witness ==
    /\ lastOp.op = "unobserve"
    /\ lastOp.target \notin StoreKeys
    /\ pendingWork = {}
    /\ recordStore # <<>>
    /\ entered # {}

----------------------------------------------------------------------------
(* C14 *)

\* C14: in every reachable state, paused or not, every threshold state with
\* visible = true also has lastSatisfied = true - those of the records in the
\* store and those of records removed by unobserve whose deferred work or dwell
\* timer is still to run.
C14_VisibleImpliesSatisfied ==
    \A r \in DOMAIN recs, i \in DOMAIN thresholds :
        recs[r].thresholdStates[i].visible => recs[r].thresholdStates[i].lastSatisfied

\* a threshold with a time component is visible, confirmed by its dwell timer,
\* while the gate is paused
C14_Witness ==
    /\ paused
    /\ \E r \in DOMAIN recs, i \in DOMAIN thresholds :
        /\ HasTime(i)
        /\ recs[r].thresholdStates[i].visible
        /\ recs[r].thresholdStates[i].lastSatisfied

----------------------------------------------------------------------------
(* C15 *)

\* C15: in every reachable state each threshold state has at most one pending
\* dwell timer, and a pending timer belongs to a state with a time threshold,
\* lastSatisfied = true and visible = false, is the one the state's handle
\* names, and was started by the sample that turned the ratio satisfaction
\* from false to true (it carries that sample's time and is due the dwell time
\* later): no later sample or signal has started another one.
C15_OnePendingTimer ==
    /\ \A tm \in timers : tm.rec \in DOMAIN recs
    /\ \A r \in DOMAIN recs, i \in DOMAIN thresholds :
        LET state == recs[r].thresholdStates[i]
            pending == TimersOf(timers, r, i)
        IN  /\ Cardinality(pending) <= 1
            /\ \A tm \in pending :
                /\ HasTime(i)
                /\ state.lastSatisfied
                /\ ~state.visible
                /\ state.timeoutId = Some(tm.id)
                /\ tm.entry.time = satisfiedSince[<<r, i>>]
                /\ state.lastVisible = Some(tm.entry.time)
                /\ tm.due = tm.entry.time + thresholds[i].time

\* a dwell timer is pending and a later sample that still satisfies the ratio has
\* been processed since it was started
C15_Witness ==
    /\ lastOp.op = "samples"
    /\ ~paused
    /\ \E tm \in timers :
        /\ tm.entry.time < now
        /\ recs[tm.rec].lastSeenEntry[1].time = now
        /\ recs[tm.rec].thresholdStates[tm.idx].lastEntry = recs[tm.rec].lastSeenEntry
        /\ tm.entry.target \in Range(lastOp.targets)

----------------------------------------------------------------------------
(* C16 *)

\* identities a record can have, and the positions of the thresholds
RecordIds == 1..MaxSoloInputs
ThresholdIds == 1..Len(ThresholdOption)

\* a dwell timer of thresholdStates[i] of record r is pending, due within the
\* time the clock covers
DwellPending(r, i) ==
    \E tm \in TimersOf(timers, r, i) : tm.due <= MaxTime

\* the dwell timer of thresholdStates[i] of record r has just fired: the state is
\* visible and the callback was invoked once, with the one entering event
DwellConfirmed(r, i) ==
    /\ lastOp.op = "timer" /\ lastOp.rec = r /\ lastOp.idx = i
    /\ r \in DOMAIN recs
    /\ recs[r].thresholdStates[i].visible
    /\ Len(calls) = 1
    /\ Len(calls[1]) = 1
    /\ IsEntering(calls[1][1])
    /\ calls[1][1].label = thresholds[i].label
    /\ calls[1][1].target = recs[r].target
    /\ TimersOf(timers, r, i) = {}

\* the period of satisfaction of thresholdStates[i] of record r was ended by a
\* failing sample, a hide, an unobserve's deferred work or a disconnect
DwellEnded(r, i) ==
    r \in DOMAIN recs => ~recs[r].thresholdStates[i].lastSatisfied

\* C16: under fairness of the clock and of the timers, a pending dwell timer
\* of a threshold state leads to the state being visible with exactly one
\* entering event delivered for it, unless a failing sample, a hidden signal, an
\* unobserve or a disconnect ends the period of satisfaction first; and a later
\* sample that fails the ratio of a visible threshold with a time component
\* delivers an exiting event for it.
C16_DwellEventuallyConfirms ==
    /\ \A r \in RecordIds, i \in ThresholdIds :
        DwellPending(r, i) ~> (DwellConfirmed(r, i) \/ DwellEnded(r, i))
    /\ [][(lastOp'.op = "samples" /\ ~paused) =>
            \A k \in DOMAIN lastOp'.targets :
                LET e == lastOp'.targets[k]
                    rid == StoreRec(recordStore, e)
                    sample == recs'[rid].lastSeenEntry[1]
                IN  \A i \in DOMAIN thresholds :
                        (/\ HasTime(i)
                         /\ recs[rid].thresholdStates[i].visible
                         /\ sample.intersectionRatio < thresholds[i].ratio)
                        => \E x \in EntriesFor(Delivered(calls'), e, thresholds[i].label) :
                                IsExiting(x) /\ x.time = sample.time
       ]_vars

\* after a dwell timer confirmed a threshold, a later failing sample delivered its
\* exiting event, whose duration covers the dwell time
C16_Witness ==
    /\ lastOp.op = "samples"
    /\ \E x \in Delivered(calls) :
        /\ IsExiting(x)
        /\ x.label = "viewable"
        /\ x.intersectionRatio < 7
        /\ x.duration >= DwellTime

----------------------------------------------------------------------------
(* C17 *)

\* C17: an entering event is delivered only for an element that has a record in
\* the store: once unobserve has removed an element, and until it is observed
\* again, no dwell timer delivers an entering event for it, whether or not the
\* deferred work of the unobserve has run yet.
C17_NoEnteringAfterUnobserve ==
    [][\A x \in Delivered(calls') : IsEntering(x) => x.target \in StoreKeys']_vars

----------------------------------------------------------------------------
(* C18 *)

\* C18: once disconnect has returned, and as long as observe is not called
\* again, no dwell timer is pending and no step invokes the callback - whatever
\* was done before the disconnect, an unobserve whose deferred work had not yet
\* run included.
C18_SilentAfterDisconnect ==
    /\ [](disconnected => timers = {})
    /\ [][(disconnected /\ disconnected') => calls' = <<>>]_vars

----------------------------------------------------------------------------
(* C19 *)

\* C19: every entry pushed onto the entry queue is delivered to the callback
\* exactly once, also when the callback calls disconnect() during the flush:
\* no entry is passed to two callback invocations, the queue is empty when the
\* operation ends, and the nesting of flushes ends without exhausting the stack.
C19_DeliveredOnce ==
    [][lastOp'.op = "samples" =>
        /\ \A c, d \in DOMAIN calls' :
            c < d => Range(calls'[c]) \cap Range(calls'[d]) = {}
        /\ queuedEntries' = <<>>
        /\ "raised" \in DOMAIN lastOp' => ~lastOp'.raised
      ]_vars

----------------------------------------------------------------------------
(* C20 *)

\* C20: a raw sample delivered while the gate is paused is stored as its
\* record's last seen sample, so a shown signal received while paused
\* re-evaluates each record of the store against the most recent sample the
\* intersection primitive delivered for it, paused or not, re-stamped to the
\* time of the show: a threshold that sample fails gets no entering event and no
\* dwell timer, whatever earlier samples did; one without a time component that
\* it satisfies gets its entering event from that sample, one with a time
\* component its dwell timer; a record that received no sample is left alone.
C20_ShowUsesLatestSample ==
    [][/\ lastOp'.op = "samples" =>
            \A k \in DOMAIN lastOp'.targets :
                LET e == lastOp'.targets[k]
                IN  recs'[StoreRec(recordStore, e)].lastSeenEntry = Some(received'[e][1].sample)
       /\ (lastOp'.op = "show" /\ paused) =>
            \A k \in DOMAIN recordStore :
                LET rid == recordStore[k].rec
                    e == recordStore[k].id
                    delivered == {x \in Delivered(calls') : x.target = e}
                IN  IF received[e] = None
                    THEN recs'[rid] = recs[rid] /\ delivered = {}
                    ELSE
                        LET sample == [received[e][1].sample EXCEPT !.time = now]
                        IN  /\ recs'[rid].lastSeenEntry = Some(sample)
                            /\ delivered =
                                {EnteringEntry(sample, rid, i, 0) :
                                    i \in {j \in DOMAIN thresholds :
                                            /\ ~HasTime(j)
                                            /\ sample.intersectionRatio >= thresholds[j].ratio}}
                            /\ \A i \in DOMAIN thresholds :
                                IF HasTime(i) /\ sample.intersectionRatio >= thresholds[i].ratio
                                THEN \E tm \in timers' :
                                        /\ TimersOf(timers', rid, i) = {tm}
                                        /\ tm.entry = EnteringEntry(sample, rid, i, 0)
                                ELSE TimersOf(timers', rid, i) = {}
      ]_vars

\* the page was shown after a sample that fails both ratios had arrived while the
\* gate was paused, for a record whose earlier sample had satisfied both: the show
\* delivered nothing and started no timer
C20_Witness ==
    /\ lastOp.op = "show"
    /\ calls = <<>>
    /\ timers = {}
    /\ \E k \in DOMAIN recordStore :
        LET e == recordStore[k].id
            record == recs[recordStore[k].rec]
        IN  /\ received[e] # None
            /\ received[e][1].paused
            /\ received[e][1].sample.intersectionRatio = 2
            /\ record.lastSeenEntry[1].intersectionRatio = 2
            /\ record.lastSeenEntry[1].time = now
            /\ \E i \in DOMAIN thresholds :
                HasTime(i) /\ record.thresholdStates[i].lastVisible # None

====
